---------------------------- MODULE Spec2Model ----------------------------
(***************************************************************************)
(* Model of builder/src/package_metadata.rs: PackageMetadata::from_package *)
(* (the manifest locator), PackageMetadata::from_manifest (the file read)  *)
(* and PackageMetadata::from_str (the metadata extractor).                 *)
(*                                                                         *)
(* Two specifications share the module:                                    *)
(*   ExtractSpec  draws a manifest text and applies from_str to it;        *)
(*   Spec         runs from_package step by step against a file system     *)
(*                that another process may change between the steps.       *)
(***************************************************************************)
EXTENDS Naturals, Sequences, FiniteSets, TLC

VARIABLES
    manifest,       \* from_str: the text handed to from_str
    metadata,       \* from_str: the record returned (None until it returned)
    pkg,            \* from_package: pkg.manifest_path()
    fs,             \* the files of the package's source directory
    pc,             \* from_package: "start", "probe", "read", "done", or "idle"
    src_path,       \* from_package: the local src_path (None before line 62)
    i,              \* from_package: index of the candidate the loop is at
    manifest_path,  \* from_package: the candidate handed to from_manifest
    probes,         \* every exists() call made so far: <<path, answer>>
    ctx,            \* from_manifest: what read_to_string returned
    result,         \* what from_package returned (None until it returned)
    changes         \* how many times another process changed the directory

vars == <<manifest, metadata, pkg, fs, pc, src_path, i, manifest_path,
          probes, ctx, result, changes>>

xvars == <<manifest, metadata>>
pvars == <<pkg, fs, pc, src_path, i, manifest_path, probes, ctx, result, changes>>

(***************************************************************************)
(* Bounds of the model.                                                    *)
(***************************************************************************)
\* Longest array written in a manifest.
MaxArrayLen == 2
\* How many times another process may change the source directory during
\* one from_package call.
MaxFsChanges == 1

(***************************************************************************)
(* Option<T> and Result<T>.                                                *)
(***************************************************************************)
None == <<>>
Some(x) == <<x>>
Ok(x) == <<"Ok", x>>
Err(e) == <<"Err", e>>
is_err(r) == r # None /\ r[1] = "Err"

(***************************************************************************)
(* toml::Value: the variants a manifest can hold.                          *)
(***************************************************************************)
String(s) == [kind |-> "String", v |-> s]
Integer(n) == [kind |-> "Integer", v |-> n]
Boolean(b) == [kind |-> "Boolean", v |-> b]
Array(a) == [kind |-> "Array", v |-> a]
Table(t) == [kind |-> "Table", v |-> t]

as_str(v) == IF v.kind = "String" THEN Some(v.v) ELSE None
\* An as_bool that also reads the strings "true" and "false".
as_bool_coercing(v) ==
    IF v.kind = "Boolean" THEN Some(v.v)
    ELSE IF v.kind = "String" /\ v.v \in {"true", "false"} THEN Some(v.v = "true")
    ELSE None
as_bool(v) == IF v.kind = "Boolean" THEN Some(v.v) ELSE None
as_array(v) == IF v.kind = "Array" THEN Some(v.v) ELSE None
as_table(v) == IF v.kind = "Table" THEN Some(v.v) ELSE None

\* Map::get on a table
get(t, key) == IF key \in DOMAIN t THEN Some(t[key]) ELSE None
\* Value::get with a string index: only a table has string keys
value_get(v, key) == IF v.kind = "Table" THEN get(v.v, key) ELSE None

\* .and_then(|p| p.as_table())
and_then_as_table(o) == IF o = None THEN None ELSE as_table(o[1])
\* .and_then(|p| p.get(key))
and_then_get(o, key) == IF o = None THEN None ELSE get(o[1], key)
\* .and_then(|f| f.as_array())
and_then_as_array(o) == IF o = None THEN None ELSE as_array(o[1])
\* .and_then(|v| v.as_bool())
and_then_as_bool(o) == IF o = None THEN None ELSE as_bool(o[1])
\* .and_then(|v| v.as_str())
and_then_as_str(o) == IF o = None THEN None ELSE as_str(o[1])
\* .unwrap_or(d)
unwrap_or(o, d) == IF o = None THEN d ELSE o[1]
\* .map(|v| v.to_owned())
map_to_owned(o) == IF o = None THEN None ELSE Some(o[1])

\* A collect that skips the elements that are not strings (filter_map).
RECURSIVE collect_strings(_)
collect_strings(f) ==
    IF Len(f) = 0 THEN Some(<<>>)
    ELSE LET head == as_str(Head(f))
             rest == collect_strings(Tail(f))
         IN  IF head = None THEN rest ELSE Some(<<head[1]>> \o rest[1])

\* f.iter().map(|v| v.as_str().map(|v| v.to_owned())).collect() into an
\* Option<Vec<String>>: None as soon as one element maps to None.
RECURSIVE collect(_)
collect(f) ==
    IF Len(f) = 0 THEN Some(<<>>)
    ELSE LET head == map_to_owned(as_str(Head(f)))
         IN  IF head = None THEN None
             ELSE LET rest == collect(Tail(f))
                  IN  IF rest = None THEN None
                      ELSE Some(<<head[1]>> \o rest[1])
\* .and_then(|f| f.iter()...collect())
and_then_collect(o) == IF o = None THEN None ELSE collect(o[1])

(***************************************************************************)
(* PackageMetadata and from_str.                                           *)
(***************************************************************************)
default ==
    [ features            |-> None,
      all_features        |-> FALSE,
      no_default_features |-> FALSE,
      default_target      |-> None,
      rustc_args          |-> None,
      rustdoc_args        |-> None,
      dependencies        |-> None ]

\* A manifest text is modelled by what the TOML parser makes of it: whether
\* its syntax is accepted, and the document its lines spell out.
parse(text) == IF text.syntax_ok THEN Ok(text.doc) ELSE Err("parse error")

\* A descent that settles for the table it last reached when a step of the
\* path is missing or is not a table.
rs_table_nearest(m) ==
    LET package == and_then_as_table(value_get(m, "package"))
        meta == and_then_as_table(and_then_get(package, "metadata"))
        docs == and_then_as_table(and_then_get(meta, "docs"))
        rs == and_then_as_table(and_then_get(docs, "rs"))
    IN  IF rs # None THEN rs
        ELSE IF docs # None THEN docs
        ELSE IF meta # None THEN meta
        ELSE package

\* manifest.get("package").and_then(as_table) ... .get("rs").and_then(as_table)
rs_table(m) ==
    and_then_as_table(and_then_get(
    and_then_as_table(and_then_get(
    and_then_as_table(and_then_get(
    and_then_as_table(value_get(m, "package")),
        "metadata")), "docs")), "rs"))

features_of(table) ==
    and_then_collect(and_then_as_array(get(table, "features")))
no_default_features_of(table, running) ==
    unwrap_or(and_then_as_bool(get(table, "no-default-features")), running)
all_features_of(table, running) ==
    unwrap_or(and_then_as_bool(get(table, "all-features")), running)
default_target_of(table) ==
    map_to_owned(and_then_as_str(get(table, "default-target")))
rustc_args_of(table) ==
    and_then_collect(and_then_as_array(get(table, "rustc-args")))
\* The rustdoc-args lines pasted from the rustc-args lines with the key left
\* as it was.
rustdoc_args_of_rustc_key(table) ==
    and_then_collect(and_then_as_array(get(table, "rustc-args")))
rustdoc_args_of(table) ==
    and_then_collect(and_then_as_array(get(table, "rustdoc-args")))
dependencies_of(table) ==
    and_then_collect(and_then_as_array(get(table, "dependencies")))

\* An extraction that gives up on the whole section when the features
\* array is present and cannot be read.
assign_fields_all_or_nothing(m0, table) ==
    IF get(table, "features") # None /\ features_of(table) = None
    THEN m0
    ELSE [ features            |-> features_of(table),
           no_default_features |-> no_default_features_of(table, m0.no_default_features),
           all_features        |-> all_features_of(table, m0.all_features),
           default_target      |-> default_target_of(table),
           rustc_args          |-> rustc_args_of(table),
           rustdoc_args        |-> rustdoc_args_of(table),
           dependencies        |-> dependencies_of(table) ]

\* lines 111-138: every field assigned from the settings table, the two
\* flags falling back to the value the record holds so far
assign_fields(m0, table) ==
    [ features            |-> features_of(table),
      no_default_features |-> no_default_features_of(table, m0.no_default_features),
      all_features        |-> all_features_of(table, m0.all_features),
      default_target      |-> default_target_of(table),
      rustc_args          |-> rustc_args_of(table),
      rustdoc_args        |-> rustdoc_args_of(table),
      dependencies        |-> dependencies_of(table) ]

\* A from_str that goes on with whatever the parser made of the text before
\* it hit the syntax error.
from_str_ignoring_parse_error(text) ==
    LET table == rs_table(text.doc)
    IN  IF table = None THEN default ELSE assign_fields(default, table[1])

from_str(text) ==
    LET parsed == parse(text)
    IN  IF is_err(parsed) THEN default
        ELSE LET table == rs_table(parsed[2])
             IN  IF table = None THEN default
                 ELSE assign_fields(default, table[1])

(***************************************************************************)
(* The manifests from_str is applied to.                                   *)
(***************************************************************************)
PathKeys == <<"package", "metadata", "docs", "rs">>
ArrayKeys == {"features", "rustc-args", "rustdoc-args", "dependencies"}
BoolKeys == {"all-features", "no-default-features"}
StrKeys == {"default-target"}
SettingKeys == ArrayKeys \cup BoolKeys \cup StrKeys

\* The record field a settings key is read into.
FieldOf(key) ==
    CASE key = "features" -> "features"
      [] key = "all-features" -> "all_features"
      [] key = "no-default-features" -> "no_default_features"
      [] key = "default-target" -> "default_target"
      [] key = "rustc-args" -> "rustc_args"
      [] key = "rustdoc-args" -> "rustdoc_args"
      [] key = "dependencies" -> "dependencies"
Fields == {FieldOf(k) : k \in SettingKeys}

\* The settings of the manifest in test_metadata.
SampleSettings ==
    "features" :> Array(<<String("feature1"), String("feature2")>>)
    @@ "all-features" :> Boolean(TRUE)
    @@ "no-default-features" :> Boolean(TRUE)
    @@ "default-target" :> String("x86_64-unknown-linux-gnu")
    @@ "rustc-args" :> Array(<<String("--example-rustc-arg")>>)
    @@ "rustdoc-args" :> Array(<<String("--example-rustdoc-arg")>>)
    @@ "dependencies" :> Array(<<String("example-system-dependency")>>)

EmptySettings == [k \in {} |-> String("")]

Elems == {String("a"), String("b"), Integer(1)}
Arrays == UNION {[1..n -> Elems] : n \in 0..MaxArrayLen}
Scalars == {String("a"), String("true"), Integer(1), Boolean(TRUE), Boolean(FALSE)}
RawValues == Scalars \cup {Table(EmptySettings)} \cup {Array(a) : a \in Arrays}
\* What a manifest can hold under one key: nothing, or a value.
RawOptions == {None} \cup {Some(v) : v \in RawValues}

\* table with key set to the value of o, or without key when o is None
with_key(table, key, o) ==
    IF o = None
    THEN [k \in DOMAIN table \ {key} |-> table[k]]
    ELSE [k \in DOMAIN table \cup {key} |-> IF k = key THEN o[1] ELSE table[k]]

\* A well-typed value and an ill-typed value for each key.
GoodValue(key) == SampleSettings[key]
BadValue(key) ==
    CASE key \in ArrayKeys -> Array(<<String("a"), Integer(1)>>)
      [] key \in BoolKeys -> String("true")
      [] key \in StrKeys -> Integer(1)

KeySeq == <<"features", "all-features", "no-default-features",
            "default-target", "rustc-args", "rustdoc-args", "dependencies">>
\* Settings in which every key is, independently, missing, well typed or
\* ill typed.
MixedSettings ==
    { [k \in {KeySeq[n] : n \in {n \in 1..7 : c[n] # 0}} |->
          IF c[CHOOSE n \in 1..7 : KeySeq[n] = k] = 1
          THEN GoodValue(k) ELSE BadValue(k)] : c \in [1..7 -> 0..2] }
\* The sample settings and the empty settings with one key rewritten.
OneKeySettings ==
    { with_key(base, k, o) : base \in {SampleSettings, EmptySettings},
                             k \in SettingKeys, o \in RawOptions }
Settings == MixedSettings \cup OneKeySettings

\* Entries that sit beside the path: a name, and settings keys out of place.
Decoy == ("name" :> String("test")) @@ SampleSettings

\* The table at level d of a document whose path package.metadata.docs.rs
\* runs through tables down to level depth - 1 and there holds o (nothing,
\* or a value) under the next key of the path.
RECURSIVE Level(_, _, _)
Level(d, depth, o) ==
    IF d < depth
    THEN with_key(Decoy, PathKeys[d], Some(Table(Level(d + 1, depth, o))))
    ELSE with_key(Decoy, PathKeys[d], o)

NonTables == {String("a"), Integer(1), Boolean(TRUE),
              Array(<<String("feature1")>>), Array(<<>>)}
\* Documents whose path is broken at some depth.
BrokenDocs ==
    { Table(Level(1, depth, o)) : depth \in 1..4,
                                  o \in {None} \cup {Some(v) : v \in NonTables} }
    \cup {Table(EmptySettings), Table("package" :> Table("name" :> String("test")))}
\* Documents with a settings section.
Document(settings) ==
    Table("package" :> Table("name" :> String("test")
                             @@ "metadata" :> Table("docs" :> Table("rs" :> Table(settings)))))
SettingsDocs ==
    {Document(s) : s \in Settings}
    \cup {Table(Level(1, 4, Some(Table(s)))) : s \in {SampleSettings, EmptySettings}}

Text(ok, doc) == [syntax_ok |-> ok, doc |-> doc]
Manifests ==
    {Text(TRUE, d) : d \in SettingsDocs \cup BrokenDocs}
    \cup {Text(FALSE, d) : d \in BrokenDocs}
    \cup {Text(FALSE, Document(s)) : s \in OneKeySettings}

\* The manifest of test_metadata, and the manifest of a package without
\* settings.
SampleManifest == Text(TRUE, Document(SampleSettings))
NameOnlyManifest == Text(TRUE, Table("package" :> Table("name" :> String("test"))))
BrokenManifest == Text(FALSE, Document(SampleSettings))

(***************************************************************************)
(* Paths and the file system.                                              *)
(***************************************************************************)
\* A path: whether it starts at the root, and its components.
Path(abs, comps) == [abs |-> abs, comps |-> comps]
\* A parent that falls back to the path itself when there is no parent.
parent_or_self(path) ==
    IF Len(path.comps) = 0 THEN Some(path)
    ELSE Some(Path(path.abs, SubSeq(path.comps, 1, Len(path.comps) - 1)))
\* Path::parent: None for the empty path and for the root
parent(path) ==
    IF Len(path.comps) = 0 THEN None
    ELSE Some(Path(path.abs, SubSeq(path.comps, 1, Len(path.comps) - 1)))
\* Path::join with a relative file name
join(base, name) == Path(base.abs, Append(base.comps, name))

\* The candidates with the canonical name first.
CandidatesCanonicalFirst == <<"Cargo.toml", "Cargo.toml.orig">>
\* ["Cargo.toml.orig", "Cargo.toml"]
Candidates == <<"Cargo.toml.orig", "Cargo.toml">>

File(kind, text) == [kind |-> kind, text |-> text]
Missing == File("missing", None)
Unreadable == File("unreadable", None)
NotUtf8 == File("not_utf8", None)
TextFile(text) == File("text", Some(text))

\* Path::exists: the file's metadata can be queried
exists(files, path) == path \in DOMAIN files /\ files[path].kind # "missing"
\* fs::read_to_string
read_to_string(files, path) ==
    IF ~(path \in DOMAIN files) \/ files[path].kind = "missing"
    THEN Err("NotFound")
    ELSE IF files[path].kind = "unreadable" THEN Err("PermissionDenied")
    ELSE IF files[path].kind = "not_utf8" THEN Err("InvalidData")
    ELSE Ok(files[path].text[1])

\* A from_manifest that fails on a text the parser rejects.
from_manifest_rejecting_parse_error(files, path) ==
    LET c == read_to_string(files, path)
    IN  IF is_err(c) THEN c
        ELSE IF is_err(parse(c[2])) THEN Err("parse error")
        ELSE Ok(from_str(c[2]))
\* let ctx = fs::read_to_string(path)?; Ok(PackageMetadata::from_str(&ctx))
from_manifest(files, path) ==
    LET c == read_to_string(files, path)
    IN  IF is_err(c) THEN c ELSE Ok(from_str(c[2]))

\* The manifest paths of the packages from_package is called with: the empty
\* path, the root, a bare file name, a file in a directory.
PkgPaths ==
    { Path(FALSE, <<>>), Path(TRUE, <<>>),
      Path(FALSE, <<"Cargo.toml">>), Path(TRUE, <<"crate", "Cargo.toml">>) }
\* The directory whose files the model tracks: the source directory, or the
\* manifest path itself when it has no parent.
WatchedDir(path) == IF parent(path) = None THEN path ELSE parent(path)[1]
WatchedPaths(path) ==
    {join(WatchedDir(path), Candidates[n]) : n \in 1..Len(Candidates)}
FileTexts == {SampleManifest, NameOnlyManifest, BrokenManifest}
FileStates == {Missing, Unreadable, NotUtf8} \cup {TextFile(t) : t \in FileTexts}

(***************************************************************************)
(* from_str applied to a manifest.                                         *)
(***************************************************************************)
InitX ==
    /\ manifest \in Manifests
    /\ metadata = None
    /\ pkg = Path(FALSE, <<>>)
    /\ fs = [p \in WatchedPaths(pkg) |-> Missing]
    /\ pc = "idle"
    /\ src_path = None
    /\ i = 1
    /\ manifest_path = None
    /\ probes = <<>>
    /\ ctx = None
    /\ result = None
    /\ changes = 0

FromStr ==
    /\ metadata = None
    /\ metadata' = Some(from_str(manifest))
    /\ UNCHANGED <<manifest, pvars>>

NextX == FromStr

ExtractSpec == InitX /\ [][NextX]_vars

(***************************************************************************)
(* from_package, one step per file-system access.                          *)
(***************************************************************************)
Init ==
    /\ manifest = None
    /\ metadata = None
    /\ pkg \in PkgPaths
    /\ fs \in [WatchedPaths(pkg) -> FileStates]
    /\ pc = "start"
    /\ src_path = None
    /\ i = 1
    /\ manifest_path = None
    /\ probes = <<>>
    /\ ctx = None
    /\ result = None
    /\ changes = 0

\* lines 62-65: the parent of the manifest path, or the first error
Parent ==
    /\ pc = "start"
    /\ src_path' = parent(pkg)
    /\ IF parent(pkg) = None
       THEN result' = Err("Source path not available") /\ pc' = "done"
       ELSE result' = result /\ pc' = "probe"
    /\ UNCHANGED <<xvars, pkg, fs, i, manifest_path, probes, ctx, changes>>

\* lines 66-68: one turn of the loop, up to the existence check
Probe ==
    /\ pc = "probe"
    /\ i <= Len(Candidates)
    /\ LET path == join(src_path[1], Candidates[i])
           found == exists(fs, path)
       IN  /\ probes' = Append(probes, <<path, found>>)
           /\ IF found
              THEN manifest_path' = Some(path) /\ pc' = "read" /\ i' = i
              ELSE manifest_path' = manifest_path /\ pc' = pc /\ i' = i + 1
    /\ UNCHANGED <<xvars, pkg, fs, src_path, ctx, result, changes>>

\* line 72: the loop is over and nothing was returned
NotFound ==
    /\ pc = "probe"
    /\ i > Len(Candidates)
    /\ result' = Err("Manifest not found")
    /\ pc' = "done"
    /\ UNCHANGED <<xvars, pkg, fs, src_path, i, manifest_path, probes, ctx, changes>>

\* A from_package that goes on to the next candidate when the one that
\* exists cannot be read.
FromManifestFallback ==
    /\ pc = "read"
    /\ ctx' = read_to_string(fs, manifest_path[1])
    /\ IF is_err(read_to_string(fs, manifest_path[1])) /\ i < Len(Candidates)
       THEN /\ pc' = "probe" /\ i' = i + 1
            /\ manifest_path' = None /\ result' = result
       ELSE /\ pc' = "done" /\ i' = i
            /\ manifest_path' = manifest_path
            /\ result' = from_manifest(fs, manifest_path[1])
    /\ UNCHANGED <<xvars, pkg, fs, src_path, probes, changes>>

\* line 69, lines 75-78: from_manifest on the candidate that exists
FromManifest ==
    /\ pc = "read"
    /\ ctx' = read_to_string(fs, manifest_path[1])
    /\ result' = from_manifest(fs, manifest_path[1])
    /\ pc' = "done"
    /\ UNCHANGED <<xvars, pkg, fs, src_path, i, manifest_path, probes, changes>>

\* Another process creates, removes or rewrites a file of the directory
\* while from_package runs.
FsChange ==
    /\ pc \in {"start", "probe", "read"}
    /\ changes < MaxFsChanges
    /\ \E p \in DOMAIN fs, f \in FileStates :
          /\ f # fs[p]
          /\ fs' = [fs EXCEPT ![p] = f]
    /\ changes' = changes + 1
    /\ UNCHANGED <<xvars, pkg, pc, src_path, i, manifest_path, probes, ctx, result>>

Next == Parent \/ Probe \/ NotFound \/ FromManifest \/ FsChange

Spec == Init /\ [][Next]_vars

(***************************************************************************)
(* What the claims speak of, stated without the operators above.           *)
(***************************************************************************)
\* The all-default record, written out.
AllDefault ==
    [ features            |-> <<>>,
      all_features        |-> FALSE,
      no_default_features |-> FALSE,
      default_target      |-> <<>>,
      rustc_args          |-> <<>>,
      rustdoc_args        |-> <<>>,
      dependencies        |-> <<>> ]

\* The path package.metadata.docs.rs is broken in the document at node, which
\* sits d - 1 keys down the path: the node is no table, or the next key is
\* missing, or the path is broken further down.
RECURSIVE PathBroken(_, _)
PathBroken(node, d) ==
    \/ node.kind # "Table"
    \/ /\ d <= Len(PathKeys)
       /\ \/ PathKeys[d] \notin DOMAIN node.v
          \/ PathBroken(node.v[PathKeys[d]], d + 1)

\* Which key of the path is missing or holds something that is no table (0:
\* none, the path is whole).
RECURSIVE BreakDepth(_, _)
BreakDepth(node, d) ==
    IF node.kind # "Table" THEN d - 1
    ELSE IF d > Len(PathKeys) THEN 0
    ELSE IF PathKeys[d] \notin DOMAIN node.v THEN d
    ELSE BreakDepth(node.v[PathKeys[d]], d + 1)

\* The text parses and its document has a settings section.
HasSection(text) == text.syntax_ok /\ ~PathBroken(text.doc, 1)
\* The settings section of such a text.
Section(text) == text.doc.v["package"].v["metadata"].v["docs"].v["rs"].v

\* The same text with the settings key rewritten to o (removed when o is
\* None).
RECURSIVE Rewritten(_, _, _, _)
Rewritten(node, d, key, o) ==
    IF d > Len(PathKeys)
    THEN Table(with_key(node.v, key, o))
    ELSE Table([node.v EXCEPT ![PathKeys[d]] = Rewritten(@, d + 1, key, o)])

AllStrings(a) == \A n \in 1..Len(a) : a[n].kind = "String"
Strings(a) == [n \in 1..Len(a) |-> a[n].v]
Holds(text, key, kind) ==
    /\ HasSection(text)
    /\ key \in DOMAIN Section(text)
    /\ Section(text)[key].kind = kind

Returned == metadata # None
Record == metadata[1]

(***************************************************************************)
(* Claims about from_str, checked under ExtractSpec.                       *)
(***************************************************************************)
\* C1: from_str returns a record for every text, and the all-default record
\* for every text the parser rejects, whatever its lines spell out.
C1_UnparseableGivesDefault ==
    Returned =>
        /\ DOMAIN Record = Fields
        /\ Record.all_features \in BOOLEAN
        /\ Record.no_default_features \in BOOLEAN
        /\ ~manifest.syntax_ok => Record = AllDefault

\* A rejected text whose lines spell out the settings of test_metadata.
C1_Witness ==
    /\ Returned
    /\ ~manifest.syntax_ok
    /\ ~PathBroken(manifest.doc, 1)
    /\ Section(manifest) = SampleSettings
    /\ Record = AllDefault

\* C2: for a parseable document whose path package.metadata.docs.rs is
\* broken at any depth, from_str returns the all-default record, which is
\* the freshly constructed record, whatever else the document holds.
C2_BrokenPathGivesDefault ==
    (Returned /\ manifest.syntax_ok /\ PathBroken(manifest.doc, 1)) =>
        Record = AllDefault /\ Record = default

\* package.metadata.docs is a table that holds settings keys of its own and
\* a string under rs.
C2_Witness ==
    /\ Returned
    /\ manifest.syntax_ok
    /\ BreakDepth(manifest.doc, 1) = Len(PathKeys)
    /\ LET docs == manifest.doc.v["package"].v["metadata"].v["docs"]
       IN  /\ "rs" \in DOMAIN docs.v /\ docs.v["rs"].kind = "String"
           /\ "features" \in DOMAIN docs.v
    /\ Record = AllDefault

\* C3: every well-typed value of the settings section is returned unchanged
\* in the field of its key; an array of strings keeps its elements, their
\* order and their number, and an empty array is present and empty.
C3_WellTypedReturnedUnchanged ==
    Returned =>
        /\ \A key \in ArrayKeys :
              (Holds(manifest, key, "Array") /\ AllStrings(Section(manifest)[key].v))
              => /\ Record[FieldOf(key)] # <<>>
                 /\ Record[FieldOf(key)][1] = Strings(Section(manifest)[key].v)
                 /\ Len(Record[FieldOf(key)][1]) = Len(Section(manifest)[key].v)
        /\ \A key \in BoolKeys :
              Holds(manifest, key, "Boolean")
              => Record[FieldOf(key)] = Section(manifest)[key].v
        /\ \A key \in StrKeys :
              Holds(manifest, key, "String")
              => Record[FieldOf(key)] = <<Section(manifest)[key].v>>

\* test_metadata: the manifest of the test and the record it asserts.
C3_Witness ==
    /\ Returned
    /\ manifest = SampleManifest
    /\ Record = [ features            |-> << <<"feature1", "feature2">> >>,
                  all_features        |-> TRUE,
                  no_default_features |-> TRUE,
                  default_target      |-> <<"x86_64-unknown-linux-gnu">>,
                  rustc_args          |-> << <<"--example-rustc-arg">> >>,
                  rustdoc_args        |-> << <<"--example-rustdoc-arg">> >>,
                  dependencies        |-> << <<"example-system-dependency">> >> ]

\* C4: an array field whose array holds an element that is not a string, at
\* any position, is absent.
C4_NonStringElementDiscardsArray ==
    Returned =>
        \A key \in ArrayKeys :
            (Holds(manifest, key, "Array") /\ ~AllStrings(Section(manifest)[key].v))
            => Record[FieldOf(key)] = <<>>

\* features = ["a", 1]: a string first, then an integer.
C4_Witness ==
    /\ Returned
    /\ Holds(manifest, "features", "Array")
    /\ Len(Section(manifest)["features"].v) = 2
    /\ Section(manifest)["features"].v[1].kind = "String"
    /\ Section(manifest)["features"].v[2].kind = "Integer"
    /\ Record.features = <<>>

\* C5: rewriting one key of the settings section (to a value of any type, a
\* malformed array, or nothing) leaves the six fields of the other keys as
\* they were.
C5_FieldsIndependent ==
    (Returned /\ HasSection(manifest)) =>
        \A key \in SettingKeys, o \in RawOptions :
            LET other == from_str(Text(TRUE, Rewritten(manifest.doc, 1, key, o)))
            IN  \A f \in Fields \ {FieldOf(key)} : other[f] = Record[f]

\* A malformed features array beside well-formed siblings, which are
\* returned.
C5_Witness ==
    /\ Returned
    /\ Holds(manifest, "features", "Array")
    /\ ~AllStrings(Section(manifest)["features"].v)
    /\ Record.features = <<>>
    /\ Record.all_features
    /\ Record.default_target = <<"x86_64-unknown-linux-gnu">>
    /\ Record.rustc_args = << <<"--example-rustc-arg">> >>
    /\ Record.dependencies = << <<"example-system-dependency">> >>

\* C9: a flag is true exactly when the settings section holds its key with
\* the boolean true; default_target is present exactly when default-target
\* holds a string, and is that string.
C9_ScalarsStrictlyTyped ==
    Returned =>
        /\ \A key \in BoolKeys :
              Record[FieldOf(key)] =
                  (Holds(manifest, key, "Boolean") /\ Section(manifest)[key].v)
        /\ (Record.default_target # <<>>) = Holds(manifest, "default-target", "String")
        /\ Holds(manifest, "default-target", "String")
           => Record.default_target[1] = Section(manifest)["default-target"].v

\* all-features = "true", the string: the flag stays false.
C9_Witness ==
    /\ Returned
    /\ Holds(manifest, "all-features", "String")
    /\ Section(manifest)["all-features"].v = "true"
    /\ Record.all_features = FALSE
    /\ Record.no_default_features = TRUE

(***************************************************************************)
(* Claims about from_package, checked under Spec.                          *)
(***************************************************************************)
\* The two candidates in the order the locator is to try them.
Pristine == "Cargo.toml.orig"
Canonical == "Cargo.toml"
\* The manifest path has a parent directory.
HasParent == Len(pkg.comps) > 0
\* The source directory and the two candidate paths in it.
SourceDir == [abs |-> pkg.abs, comps |-> SubSeq(pkg.comps, 1, Len(pkg.comps) - 1)]
PristinePath == [abs |-> SourceDir.abs, comps |-> SourceDir.comps \o <<Pristine>>]
CanonicalPath == [abs |-> SourceDir.abs, comps |-> SourceDir.comps \o <<Canonical>>]
\* The file is there, as the file system stands.
Present(path) == fs[path].kind # "missing"
\* from_package returned this error.
Failed(msg) == result # <<>> /\ result[1] = "Err" /\ result[2] = msg
SourcePathUnavailable == "Source path not available"
ManifestNotFound == "Manifest not found"
ReadErrors == {"NotFound", "PermissionDenied", "InvalidData"}
Done == pc = "done"
Chosen == manifest_path[1]

\* C6: the existence checks go Cargo.toml.orig, then Cargo.toml, in the
\* parent directory of the manifest path, and the first candidate found to
\* exist is the one used: Cargo.toml is used only after Cargo.toml.orig was
\* found missing, and with the directory left alone, Cargo.toml.orig is used
\* whenever it exists and Cargo.toml when it alone exists.
C6_FirstExistingCandidateChosen ==
    /\ Len(probes) <= 2
    /\ Len(probes) >= 1 => probes[1][1] = PristinePath
    /\ Len(probes) = 2 => probes[2][1] = CanonicalPath /\ ~probes[1][2]
    /\ manifest_path # <<>> =>
          /\ HasParent
          /\ probes[Len(probes)] = <<Chosen, TRUE>>
          /\ Chosen = CanonicalPath => probes[1] = <<PristinePath, FALSE>>
    /\ (Done /\ HasParent /\ changes = 0) =>
          /\ Present(PristinePath) => manifest_path = <<PristinePath>>
          /\ (~Present(PristinePath) /\ Present(CanonicalPath))
             => manifest_path = <<CanonicalPath>>

\* Both files exist with different texts and nobody touches them: the record
\* returned is the one of Cargo.toml.orig.
C6_Witness ==
    /\ Done
    /\ changes = 0
    /\ fs[PristinePath] = TextFile(SampleManifest)
    /\ fs[CanonicalPath] = TextFile(NameOnlyManifest)
    /\ manifest_path = <<PristinePath>>
    /\ result[1] = "Ok"
    /\ result[2].features = << <<"feature1", "feature2">> >>

\* C7: without a parent directory from_package fails with "Source path not
\* available" and checks no candidate; it fails with "Manifest not found"
\* exactly when there is a parent and both existence checks said no; either
\* way no path was chosen and no file was read.
C7_LocatorFailures ==
    /\ (pc # "start" /\ ~HasParent) =>
          /\ Failed(SourcePathUnavailable)
          /\ probes = <<>>
    /\ Done =>
          /\ Failed(SourcePathUnavailable) <=> ~HasParent
          /\ Failed(ManifestNotFound) <=>
                (HasParent /\ Len(probes) = 2 /\ ~probes[1][2] /\ ~probes[2][2])
          /\ changes = 0 =>
                (Failed(ManifestNotFound) <=>
                    (HasParent /\ ~Present(PristinePath) /\ ~Present(CanonicalPath)))
          /\ (Failed(SourcePathUnavailable) \/ Failed(ManifestNotFound)) =>
                manifest_path = <<>> /\ ctx = <<>>

\* The manifest path is the root, the files /Cargo.toml.orig and /Cargo.toml
\* exist, and neither was looked at.
C7_Witness ==
    /\ Done
    /\ pkg = [abs |-> TRUE, comps |-> <<>>]
    /\ \A p \in DOMAIN fs : Present(p)
    /\ probes = <<>>
    /\ Failed(SourcePathUnavailable)

\* C8 as claimed: from_package fails in two ways only, and once a candidate
\* has been found to exist the caller receives a record.
C8_OnlyLocatorErrors ==
    Done =>
        /\ result[1] = "Err" =>
              (Failed(SourcePathUnavailable) \/ Failed(ManifestNotFound))
        /\ manifest_path # <<>> => result[1] = "Ok"

\* C8 as the code has it: from_package fails in three ways, the two failures
\* of the locator and the failure of the read of the chosen candidate, which
\* is returned as it is; once the chosen candidate has been read, the caller
\* receives a record whether or not the text parses.
C8_LocatorAndReadErrors ==
    Done =>
        /\ manifest_path = <<>> =>
              (Failed(SourcePathUnavailable) \/ Failed(ManifestNotFound))
        /\ manifest_path # <<>> =>
              /\ ctx # <<>>
              /\ ctx[1] = "Err" => (result = ctx /\ ctx[2] \in ReadErrors)
              /\ ctx[1] = "Ok" =>
                    /\ result[1] = "Ok"
                    /\ DOMAIN result[2] = Fields
                    /\ ~ctx[2].syntax_ok => result[2] = AllDefault

\* The chosen candidate exists and cannot be read: the read error is what
\* the caller gets.
C8_Witness ==
    /\ Done
    /\ changes = 0
    /\ manifest_path # <<>>
    /\ fs[Chosen] = Unreadable
    /\ Failed("PermissionDenied")

\* C10: from_package stays with the first candidate found to exist: when
\* Cargo.toml.orig was found to exist, no second check is made, and a failed
\* read of it is the result even if Cargo.toml can be read; Cargo.toml is
\* checked only after Cargo.toml.orig was found missing.
C10_NoFallbackAfterFailedRead ==
    /\ (Len(probes) >= 1 /\ probes[1][2]) =>
          /\ Len(probes) = 1
          /\ manifest_path = <<PristinePath>>
          /\ Done => /\ ctx # <<>>
                     /\ ctx[1] = "Err" => result = ctx
    /\ Len(probes) >= 2 => ~probes[1][2]

\* Cargo.toml.orig was there at the check and gone at the read, and the
\* readable Cargo.toml beside it was not used.
C10_Witness ==
    /\ Done
    /\ probes = << <<PristinePath, TRUE>> >>
    /\ changes = 1
    /\ fs[PristinePath] = Missing
    /\ fs[CanonicalPath] = TextFile(SampleManifest)
    /\ Failed("NotFound")

=============================================================================
